---- MODULE Spec2Model ----
(***************************************************************************)
(* A model of rule_one.py: Rule One deals (price as a percent of the       *)
(* sticker price), the sorted list of deals, and the memoized sticker      *)
(* price lookup.                                                           *)
(*                                                                         *)
(* Python values.  A number is a record [t, n]: t is the Python type       *)
(* ("int" or "float") and n the value in thousandths, so 352.5 is          *)
(* [t |-> "float", n |-> 352500] and the int 98 is [t |-> "int",           *)
(* n |-> 98000].  A float stands for the IEEE-754 double nearest to        *)
(* n/1000.  None is [t |-> "None", n |-> 0]; a raised exception is         *)
(* [t |-> "exc", n |-> 0, exc |-> name].                                   *)
(***************************************************************************)
EXTENDS Integers, Sequences, FiniteSets, TLC

\* ---------------------------------------------------------------- bounds
MaxCompanies == 3      \* longest list of companies / symbols passed in
MaxRatio == 60         \* SpecNum: prices and sticker prices are 0..MaxRatio
MaxSticker == 2600     \* SpecNum: stickers are -MaxSticker..MaxSticker thousandths
MaxFillers == 129      \* SpecCache: distinct other symbols looked up

\* ------------------------------------------------------- Python numbers
IntNum(v) == [t |-> "int", n |-> 1000 * v]
FloatNum(n) == [t |-> "float", n |-> n]
None == [t |-> "None", n |-> 0]
Raise(name) == [t |-> "exc", n |-> 0, exc |-> name]
IsRaise(x) == x.t = "exc"

Abs(x) == IF x < 0 THEN -x ELSE x
Sign(x) == IF x < 0 THEN -1 ELSE IF x > 0 THEN 1 ELSE 0

RECURSIVE Gcd(_, _)
Gcd(a, b) == IF b = 0 THEN a ELSE Gcd(b, a % b)

RECURSIVE Pow2(_)
Pow2(e) == IF e = 0 THEN 1 ELSE 2 * Pow2(e - 1)

\* 2^e mod m, without ever forming 2^e
RECURSIVE PowMod2(_, _)
PowMod2(e, m) == IF e = 0 THEN 1 % m ELSE (2 * PowMod2(e - 1, m)) % m

\* floor(log2(a/b)) for a, b > 0
RECURSIVE FloorLog2(_, _)
FloorLog2(a, b) ==
    IF a >= 2 * b THEN 1 + FloorLog2(a, 2 * b)
    ELSE IF a < b THEN FloorLog2(2 * a, b) - 1
    ELSE 0

(***************************************************************************)
(* IEEE-754 double arithmetic on small rationals, in integer arithmetic.   *)
(* The double nearest to a/b (a, b > 0) is M * 2^-e with                   *)
(* e = 52 - floor(log2(a/b)) and M = a*2^e/b rounded to nearest, ties to   *)
(* even.  Only the remainder rho = a*2^e mod b decides which way it was    *)
(* rounded, and rho needs no number wider than a*b.                        *)
(***************************************************************************)
\* sign of fl(a/b) - a/b: the direction true division a/b was rounded in
DivErr(a0, b0) ==
    LET g == Gcd(a0, b0)
        a == a0 \div g
        b == b0 \div g
        e == 52 - FloorLog2(a, b)
        rho == (a * PowMod2(e, b)) % b
        odd == ((a * PowMod2(e, 2 * b)) % (2 * b)) >= b
    IN  IF rho = 0 THEN 0
        ELSE IF 2 * rho < b THEN -1
        ELSE IF 2 * rho > b THEN 1
        ELSE IF odd THEN 1 ELSE -1

\* round-half-even of a double x to an integer count of units, where a/b is
\* the number of units in the rational x stands for and err is the sign of
\* (x - that rational): an exact decimal tie is decided by the double's own
\* value, as Python's correctly rounded round() does.
RoundHalfEven(a, b, err) ==
    LET q == a \div b
        r == a % b
    IN  IF 2 * r < b THEN q
        ELSE IF 2 * r > b THEN q + 1
        ELSE IF err > 0 THEN q + 1
        ELSE IF err < 0 THEN q
        ELSE IF q % 2 = 0 THEN q ELSE q + 1

\* 100 * round(x, 2) in doubles, where round(x, 2) is the double nearest to
\* k/100 (k > 0): the product is k exactly, or the double just below k.
\* With d = fl(k/100) = M * 2^-s and R = k*2^s - 100*M, the exact product is
\* k - R*2^-s; it rounds to a double below k iff R exceeds half the spacing
\* of the doubles below k, which is 2^(j-i) units of 2^-s (half that when k
\* is a power of two), i = floor(log2(k/100)), j = floor(log2(k)).
Mul100Below(k) ==
    LET i == FloorLog2(k, 100)
        j == FloorLog2(k, 1)
        s == 52 - i
        rho == (k * PowMod2(s, 100)) % 100
        odd == ((k * PowMod2(s, 200)) % 200) >= 100
        up == 2 * rho > 100 \/ (2 * rho = 100 /\ odd)
        R == IF up THEN rho - 100 ELSE rho
        spacing == IF k = Pow2(j) THEN Pow2(j - i - 1) ELSE Pow2(j - i)
    IN  R > 0 /\ 2 * R > spacing

\* the double 100 * round(x, 2) for round(x, 2) = k/100, as
\* [near |-> the integer it is at or next to, below |-> it is just under it]
Mul100(k) ==
    IF k = 0 THEN [near |-> 0, below |-> FALSE]
    ELSE [near |-> Abs(k), below |-> Mul100Below(Abs(k))]

\* int(m): truncation towards zero (of the magnitude; the sign is the caller's)
PyInt(m) == IF m.below THEN m.near - 1 ELSE m.near
\* round(m): the nearest integer
PyRound(m) == m.near

\* round(price / sticker_price, 2) in hundredths, for exactly representable
\* price and sticker_price of the same sign class (magnitudes p, s > 0)
RoundRatio2(p, s) == RoundHalfEven(100 * p, s, DivErr(p, s))

\* ------------------------------------------------- Python str, list, dict
Str(s) == [t |-> "str", n |-> 0, s |-> s]
List(items) == [t |-> "list", n |-> 0, items |-> items]
Dict(items) == [t |-> "dict", n |-> 0, items |-> items]

Range(seq) == {seq[i] : i \in 1..Len(seq)}

\* a dict is the sequence of its [key, value] items in insertion order
DictKeys(d) == [i \in 1..Len(d) |-> d[i].key]
DictHas(d, k) == \E i \in 1..Len(d) : d[i].key = k
DictGet(d, k) == d[CHOOSE i \in 1..Len(d) : d[i].key = k].value
\* variants of DictSet: one that keeps a repeated key's first value, one that
\* adds a repeated key a second time
DictSetFirst(d, k, v) ==
    IF DictHas(d, k) THEN d ELSE Append(d, [key |-> k, value |-> v])
DictSetAppend(d, k, v) == Append(d, [key |-> k, value |-> v])

\* d[k] = v: a key already present keeps its place and takes the new value
DictSet(d, k, v) ==
    IF DictHas(d, k)
    THEN [i \in 1..Len(d) |-> IF d[i].key = k THEN [key |-> k, value |-> v] ELSE d[i]]
    ELSE Append(d, [key |-> k, value |-> v])

\* ------------------------------------------------------------------ repr
Digits3(f) ==
    IF f % 1000 = 0 THEN "0"
    ELSE LET a == ToString(f \div 100)
             b == ToString((f \div 10) % 10)
             c == ToString(f % 10)
         IN  IF f % 100 = 0 THEN a
             ELSE IF f % 10 = 0 THEN a \o b
             ELSE a \o b \o c

\* repr of a Python value: an int prints its digits, a float always prints a
\* decimal point, a str prints in quotes
repr(x) ==
    IF x.t = "None" THEN "None"
    ELSE IF x.t = "str" THEN "'" \o x.s \o "'"
    ELSE LET sign == IF x.n < 0 THEN "-" ELSE ""
             whole == ToString(Abs(x.n) \div 1000)
         IN  IF x.t = "int" THEN sign \o whole
             ELSE sign \o whole \o "." \o Digits3(Abs(x.n) % 1000)

\* ------------------------------------------------------- Company and Deal
Company(symbol, sticker_price) ==
    [t |-> "Company", symbol |-> symbol, sticker_price |-> sticker_price]

Deal(symbol, sticker_price, price, percent_of_sticker) ==
    [t |-> "Deal", symbol |-> symbol, sticker_price |-> sticker_price,
     price |-> price, percent_of_sticker |-> percent_of_sticker]

\* the repr NamedTuple gives a Deal
Deal__repr__(self) ==
    "Deal(symbol=" \o repr(Str(self.symbol))
    \o ", sticker_price=" \o repr(self.sticker_price)
    \o ", price=" \o repr(self.price)
    \o ", percent_of_sticker=" \o repr(self.percent_of_sticker) \o ")"

Deal__eq__(self, other) ==
    IF Deal__repr__(other) # Deal__repr__(self) THEN FALSE ELSE TRUE

\* variant of __lt__: the comparison the other way round
Deal__lt__reversed(self, other) ==
    self.percent_of_sticker.n > other.percent_of_sticker.n

Deal__lt__(self, other) == self.percent_of_sticker.n < other.percent_of_sticker.n

\* sorted(deals): a stable sort that compares with __lt__ alone
RECURSIVE Insert(_, _)
Insert(s, x) ==
    IF Len(s) = 0 THEN <<x>>
    ELSE IF Deal__lt__(x, s[Len(s)])
         THEN Append(Insert(SubSeq(s, 1, Len(s) - 1), x), s[Len(s)])
         ELSE Append(s, x)

RECURSIVE sorted(_)
sorted(deals) ==
    IF Len(deals) = 0 THEN <<>>
    ELSE Insert(sorted(SubSeq(deals, 1, Len(deals) - 1)), deals[Len(deals)])

\* ---------------------------------------------------------------- prices
\* Ticker maps a symbol to the currentPrice the quote provider gives for it,
\* or to the exception it raises.
RECURSIVE get_price_items(_, _, _)
get_price_items(items, Ticker, prices) ==
    IF Len(items) = 0 THEN Dict(prices)
    ELSE LET the_symbol == Head(items)
             price == Ticker[the_symbol]
         IN  IF IsRaise(price) THEN price
             ELSE get_price_items(Tail(items), Ticker, DictSet(prices, the_symbol, price))

get_price(symbol, Ticker) ==
    IF symbol.t = "str" THEN Ticker[symbol.s]
    ELSE get_price_items(symbol.items, Ticker, <<>>)

get_percent_of_sticker(price, sticker_price) ==
    IF sticker_price.n = 0 THEN Raise("ZeroDivisionError")
    ELSE LET sgn == Sign(price.n) * Sign(sticker_price.n)
             k == IF price.n = 0 THEN 0
                  ELSE RoundRatio2(Abs(price.n), Abs(sticker_price.n))
         IN  IntNum(sgn * PyInt(Mul100(k)))

\* sticker_prices = {company.symbol: company.sticker_price for company in companies}
RECURSIVE sticker_prices_of(_, _)
sticker_prices_of(companies, d) ==
    IF Len(companies) = 0 THEN d
    ELSE sticker_prices_of(Tail(companies),
                           DictSet(d, Head(companies).symbol, Head(companies).sticker_price))

\* variant of the loop of get_deals: a symbol whose quote fails is skipped
RECURSIVE get_deals_loop_skip(_, _, _, _)
get_deals_loop_skip(keys, sticker_prices, Ticker, deals) ==
    IF Len(keys) = 0 THEN List(deals)
    ELSE LET symbol == Head(keys)
             price == get_price(Str(symbol), Ticker)
             sticker_price == DictGet(sticker_prices, symbol)
             percent == IF IsRaise(price) THEN price
                        ELSE get_percent_of_sticker(price, sticker_price)
         IN  get_deals_loop_skip(
                 Tail(keys), sticker_prices, Ticker,
                 IF IsRaise(percent) THEN deals
                 ELSE Append(deals, Deal(symbol, sticker_price, price, percent)))

RECURSIVE get_deals_loop(_, _, _, _)
get_deals_loop(keys, sticker_prices, Ticker, deals) ==
    IF Len(keys) = 0 THEN List(deals)
    ELSE LET symbol == Head(keys)
             price == get_price(Str(symbol), Ticker)
             sticker_price == DictGet(sticker_prices, symbol)
             percent == IF IsRaise(price) THEN price
                        ELSE get_percent_of_sticker(price, sticker_price)
         IN  IF IsRaise(percent) THEN percent
             ELSE get_deals_loop(Tail(keys), sticker_prices, Ticker,
                                 Append(deals, Deal(symbol, sticker_price, price, percent)))

get_deals(companies, Ticker) ==
    LET sticker_prices == sticker_prices_of(companies, <<>>)
        deals == get_deals_loop(DictKeys(sticker_prices), sticker_prices, Ticker, <<>>)
    IN  IF IsRaise(deals) THEN deals ELSE List(sorted(deals.items))

\* variant of get_deal: the percentage taken of the price, not of the sticker
get_deal_swapped(company, Ticker) ==
    IF company.t = "list" THEN get_deals(company.items, Ticker)
    ELSE LET price == get_price(Str(company.symbol), Ticker)
             percent == IF IsRaise(price) THEN price
                        ELSE get_percent_of_sticker(company.sticker_price, price)
         IN  IF IsRaise(percent) THEN percent
             ELSE Deal(company.symbol, company.sticker_price, price, percent)

get_deal(company, Ticker) ==
    IF company.t = "list" THEN get_deals(company.items, Ticker)
    ELSE LET price == get_price(Str(company.symbol), Ticker)
             percent == IF IsRaise(price) THEN price
                        ELSE get_percent_of_sticker(price, company.sticker_price)
         IN  IF IsRaise(percent) THEN percent
             ELSE Deal(company.symbol, company.sticker_price, price, percent)

Deal_from_(company, Ticker) == get_deal(company, Ticker)

\* -------------------------------------------------------------- stickers
CacheMaxSize == 128    \* @lru_cache without arguments: functools' default maxsize

\* the cache is the sequence of [key, value] items, least recently used first
lru_touch(cache, key) ==
    LET i == CHOOSE j \in 1..Len(cache) : cache[j].key = key
    IN  Append(SubSeq(cache, 1, i - 1) \o SubSeq(cache, i + 1, Len(cache)), cache[i])

\* variant of lru_insert: a cache of one entry, as @lru_cache(maxsize=1) keeps
lru_insert_one(cache, key, value) == <<[key |-> key, value |-> value]>>

lru_insert(cache, key, value) ==
    IF Len(cache) >= CacheMaxSize
    THEN Append(Tail(cache), [key |-> key, value |-> value])
    ELSE Append(cache, [key |-> key, value |-> value])

\* get maps a symbol to the sticker_price value in the endpoint's JSON reply,
\* or to the exception the request raises.  The result is
\* [ret, cache, requested]: what the call returns or raises, the cache after
\* it, and whether a request went to the endpoint.
get_sticker(symbol, get, cache) ==
    IF DictHas(cache, symbol)
    THEN [ret |-> DictGet(cache, symbol), cache |-> lru_touch(cache, symbol),
          requested |-> FALSE]
    ELSE LET result == get[symbol]
         IN  [ret |-> result,
              cache |-> IF IsRaise(result) THEN cache
                        ELSE lru_insert(cache, symbol, result),
              requested |-> TRUE]

\* variant of round_sticker: the two roundings the wrong way round
round_sticker_swapped(sticker) ==
    IF sticker.t = "int" THEN sticker
    ELSE LET a == Abs(sticker.n)
             err == IF a = 0 THEN 0 ELSE DivErr(a, 1000)
         IN  IF sticker.n < 2000
             THEN IntNum(Sign(sticker.n) * RoundHalfEven(a, 1000, err))
             ELSE FloatNum(10 * RoundHalfEven(a, 10, err))

\* round(sticker) and round(sticker, 2): an int is its own rounding
round_sticker(sticker) ==
    IF sticker.t = "int" THEN sticker
    ELSE LET a == Abs(sticker.n)
             err == IF a = 0 THEN 0 ELSE DivErr(a, 1000)
         IN  IF sticker.n >= 2000
             THEN IntNum(RoundHalfEven(a, 1000, err))
             ELSE FloatNum(Sign(sticker.n) * 10 * RoundHalfEven(a, 10, err))

\* variant of is_valid_sticker: only a missing sticker is invalid
is_valid_sticker_lax(result) == result.t # "None"

is_valid_sticker(result) == result.t # "None" /\ result.n >= 0

\* the loop of get_stickers over items.keys(); fetched records each key's
\* get_sticker result and requests the keys a request was sent for
RECURSIVE get_stickers_loop(_, _, _, _, _, _)
get_stickers_loop(keys, get, cache, stickers, fetched, requests) ==
    IF Len(keys) = 0
    THEN [ret |-> Dict(stickers), cache |-> cache, fetched |-> fetched,
          requests |-> requests]
    ELSE LET key == Head(keys)
             got == get_sticker(key, get, cache)
             result == got.ret
             reqs == IF got.requested THEN Append(requests, key) ELSE requests
         IN  IF IsRaise(result)
             THEN [ret |-> result, cache |-> got.cache, fetched |-> fetched,
                   requests |-> reqs]
             ELSE get_stickers_loop(
                      Tail(keys), get, got.cache,
                      IF is_valid_sticker(result)
                      THEN DictSet(stickers, key, round_sticker(result))
                      ELSE stickers,
                      DictSet(fetched, key, result), reqs)

\* items stands for the dict's keys in order: its values are never read
get_stickers(items, get, cache) == get_stickers_loop(items, get, cache, <<>>, <<>>, <<>>)

\* ------------------------------------------------------------ the program
VARIABLES
    call,       \* the call made last: its operation and arguments
    ret,        \* what that call returned or raised
    cache,      \* the lru_cache of get_sticker
    requests,   \* the symbols that call sent to the sticker endpoint, in order
    fetched,    \* get_stickers: each key's get_sticker result
    memo,       \* history: the value get_sticker returned last for the tracked
                \* symbol, and the other symbols it has returned a value for since
    fill        \* SpecCache: how many filler symbols have been looked up

vars == <<call, ret, cache, requests, fetched, memo, fill>>

Symbols == {"msft", "tsm", "aapl"}
Quotes == {FloatNum(352500), IntNum(98)}
\* each symbol's quote or sticker request fails with a failure of its own
QuoteFailure(s) == Raise("HTTPError " \o s)
\* the quote providers that differ on the symbols S a call asks about
Tickers(S) ==
    {[s \in Symbols |-> IF s \notin S THEN IntNum(98)
                        ELSE IF q[s] = None THEN QuoteFailure(s) ELSE q[s]] :
        q \in [S -> Quotes \cup {None}]}
StickerPrices == {IntNum(118), IntNum(11)}
ListedCompanies == {Company(s, p) : s \in Symbols, p \in StickerPrices}
Companies == ListedCompanies \cup {Company("aapl", IntNum(0))}

SeqsUpTo(S, n) == UNION {[1..m -> S] : m \in 0..n}
Distinct(seq) == \A i, j \in 1..Len(seq) : i # j => seq[i] # seq[j]

Unset == [t |-> "unset", n |-> 0]
StickerSymbols == {"msft", "tsm"}
StickerValues == {None, FloatNum(-500), FloatNum(0), FloatNum(512), FloatNum(22010)}
StickerFailure(s) == Raise("ConnectionError " \o s)
\* the sticker endpoint's replies for the symbols S a call sends to it
Gets(S) ==
    {[s \in S |-> IF v[s] = Unset THEN StickerFailure(s) ELSE v[s]] :
        v \in [S -> StickerValues \cup {Unset}]}
Missing(keys, c) == {s \in keys : ~DictHas(c, s)}
Tracked == "msft"
ItemKeys == {k \in SeqsUpTo(StickerSymbols, Cardinality(StickerSymbols)) : Distinct(k)}

NoCall == [op |-> "none"]

\* memo after get_sticker(symbol) ended with result
Observe(m, symbol, result) ==
    IF IsRaise(result) THEN m
    ELSE IF symbol = Tracked THEN [value |-> result, others |-> {}]
    ELSE IF m.value = Unset THEN m
    ELSE [value |-> m.value, others |-> m.others \cup {symbol}]

RECURSIVE ObserveAll(_, _)
ObserveAll(m, results) ==
    IF Len(results) = 0 THEN m
    ELSE ObserveAll(Observe(m, Head(results).key, Head(results).value), Tail(results))

Init ==
    /\ call = NoCall
    /\ ret = None
    /\ cache = <<>>
    /\ requests = <<>>
    /\ fetched = <<>>
    /\ memo = [value |-> Unset, others |-> {}]
    /\ fill = 0

Pure(op, result) ==
    /\ call' = op
    /\ ret' = result
    /\ UNCHANGED <<cache, requests, fetched, memo, fill>>

\* get_price(symbol, Ticker=Ticker) for one symbol and for a collection
GetPrice(symbol, Ticker) ==
    Pure([op |-> "get_price", arg |-> symbol, Ticker |-> Ticker],
         get_price(symbol, Ticker))

GetDeal(company, Ticker) ==
    Pure([op |-> "get_deal", arg |-> company, Ticker |-> Ticker],
         get_deal(company, Ticker))

GetDeals(companies, Ticker) ==
    Pure([op |-> "get_deals", arg |-> List(companies), Ticker |-> Ticker],
         get_deals(companies, Ticker))

DealFrom(company, Ticker) ==
    Pure([op |-> "Deal.from_", arg |-> company, Ticker |-> Ticker],
         Deal_from_(company, Ticker))

GetSticker(symbol, get) ==
    LET got == get_sticker(symbol, get, cache)
    IN  /\ call' = [op |-> "get_sticker", arg |-> symbol, get |-> get,
                    had |-> IF symbol = Tracked THEN memo.value ELSE Unset,
                    others |-> IF symbol = Tracked THEN Cardinality(memo.others)
                               ELSE 0]
        /\ ret' = got.ret
        /\ cache' = got.cache
        /\ requests' = IF got.requested THEN <<symbol>> ELSE <<>>
        /\ fetched' = <<>>
        /\ memo' = Observe(memo, symbol, got.ret)

GetStickers(items, get) ==
    LET got == get_stickers(items, get, cache)
    IN  /\ call' = [op |-> "get_stickers", arg |-> items, get |-> get,
                    before |-> cache]
        /\ ret' = got.ret
        /\ cache' = got.cache
        /\ requests' = got.requests
        /\ fetched' = got.fetched
        /\ memo' = ObserveAll(memo, got.fetched)

SymbolsOf(companies) == {c.symbol : c \in Range(companies)}

\* A fresh process makes one call.
First == call = NoCall

PriceOfSymbol ==
    First /\ \E s \in Symbols : \E T \in Tickers({s}) : GetPrice(Str(s), T)
PriceOfSymbols ==
    First /\ \E l \in SeqsUpTo(Symbols, MaxCompanies) :
        \E T \in Tickers(Range(l)) : GetPrice(List(l), T)
DealOfCompany ==
    First /\ \E c \in Companies : \E T \in Tickers({c.symbol}) : GetDeal(c, T)
DealOfList ==
    First /\ \E l \in SeqsUpTo(ListedCompanies, MaxCompanies - 1) :
        \E T \in Tickers(SymbolsOf(l)) : GetDeal(List(l), T)
DealsOfList ==
    First /\ \E l \in SeqsUpTo(Companies, MaxCompanies) :
        \E T \in Tickers(SymbolsOf(l)) : GetDeals(l, T)
DealFromList ==
    First /\ \E l \in SeqsUpTo(ListedCompanies, MaxCompanies - 1) :
        \E T \in Tickers(SymbolsOf(l)) : DealFrom(List(l), T)
StickerOfSymbol ==
    First /\ \E s \in StickerSymbols :
        \E g \in Gets(Missing({s}, cache)) : GetSticker(s, g) /\ UNCHANGED fill
StickersOfItems ==
    First /\ \E k \in ItemKeys :
        \E g \in Gets(Missing(Range(k), cache)) : GetStickers(k, g) /\ UNCHANGED fill

Next ==
    \/ PriceOfSymbol
    \/ PriceOfSymbols
    \/ DealOfCompany
    \/ DealOfList
    \/ DealsOfList
    \/ DealFromList
    \/ StickerOfSymbol
    \/ StickersOfItems

Spec == Init /\ [][Next]_vars

\* --------------------------------------------------- the pure functions
PercentArgs == {IntNum(v) : v \in 0..MaxRatio}
StickerArgs ==
    {FloatNum(n) : n \in (-MaxSticker..MaxSticker) \cup {22010}}
    \cup {IntNum(v) : v \in 0..3}
DealValues ==
    {Deal(s, sp, p, pc) :
        s \in {"msft", "tsm"},
        sp \in {IntNum(118), FloatNum(118000)},
        p \in {IntNum(98), FloatNum(98000), FloatNum(352500)},
        pc \in {IntNum(83), IntNum(299)}}

PercentOfSticker ==
    First /\ \E price \in PercentArgs, sticker_price \in PercentArgs :
        Pure([op |-> "get_percent_of_sticker", price |-> price,
              sticker_price |-> sticker_price],
             get_percent_of_sticker(price, sticker_price))

RoundSticker ==
    First /\ \E sticker \in StickerArgs :
        Pure([op |-> "round_sticker", sticker |-> sticker], round_sticker(sticker))

DealEq ==
    First /\ \E self \in DealValues, other \in DealValues :
        Pure([op |-> "Deal.__eq__", self |-> self, other |-> other],
             [t |-> "bool", n |-> 0, b |-> Deal__eq__(self, other)])

NextNum == PercentOfSticker \/ RoundSticker \/ DealEq

SpecNum == Init /\ [][NextNum]_vars

\* ------------------------------------------- repeated sticker lookups
\* get_stickers and get_sticker called again and again in one process
StickersAgain ==
    \E k \in ItemKeys :
        \E g \in Gets(Missing(Range(k), cache)) : GetStickers(k, g) /\ UNCHANGED fill
StickerAgain ==
    \E s \in StickerSymbols :
        \E g \in Gets(Missing({s}, cache)) : GetSticker(s, g) /\ UNCHANGED fill

NextStickers == StickersAgain \/ StickerAgain

SpecStickers == Init /\ [][NextStickers]_vars

\* one symbol looked up now and then among lookups of many other symbols
Filler(i) == "s" \o ToString(i)
HotValues == {FloatNum(22010), FloatNum(512)}

LookupHot ==
    \E g \in [Missing({Tracked}, cache) -> HotValues \cup {StickerFailure(Tracked)}] :
        GetSticker(Tracked, g) /\ UNCHANGED fill
LookupNew ==
    /\ fill < MaxFillers
    /\ GetSticker(Filler(fill + 1), [s \in {Filler(fill + 1)} |-> IntNum(22)])
    /\ fill' = fill + 1
LookupLast ==
    /\ fill > 0
    /\ \E g \in [Missing({Filler(fill)}, cache) -> {IntNum(22)}] :
           GetSticker(Filler(fill), g)
    /\ UNCHANGED fill

NextCache == LookupHot \/ LookupNew \/ LookupLast

SpecCache == Init /\ [][NextCache]_vars

\* ------------------------------------------------------------ properties
\* the last call was handed a list of companies: get_deals, or get_deal or
\* Deal.from_ given a list
IsListCall ==
    \/ call.op = "get_deals"
    \/ call.op \in {"get_deal", "Deal.from_"} /\ call.arg.t = "list"

Percent(deal) == deal.percent_of_sticker.n

\* the reply to the first symbol of the sequence whose request fails
FirstFailure(symbols, reply) ==
    reply[symbols[CHOOSE i \in 1..Len(symbols) :
                    /\ IsRaise(reply[symbols[i]])
                    /\ \A j \in 1..(i - 1) : ~IsRaise(reply[symbols[j]])]]

SymbolSeq(companies) == [i \in 1..Len(companies) |-> companies[i].symbol]

\* C1: the deals returned for a list of companies, in whatever order the
\* companies come, are in ascending order of percent_of_sticker: each deal's
\* percentage is at most the next one's.
C1_SortedByPercent ==
    (IsListCall /\ ret.t = "list") =>
        \A i \in 1..(Len(ret.items) - 1) :
            Percent(ret.items[i]) <= Percent(ret.items[i + 1])

\* the companies came best deal last, and the deals come back best deal first
C1_Witness ==
    /\ call.op = "get_deals"
    /\ ret.t = "list"
    /\ Len(call.arg.items) = 2
    /\ Len(ret.items) = 2
    /\ ret.items[1].symbol = call.arg.items[2].symbol
    /\ ret.items[2].symbol = call.arg.items[1].symbol
    /\ Percent(ret.items[1]) < Percent(ret.items[2])

\* C3: get_deal of one company, when the quote provider gives price p for
\* its symbol, returns the Deal with the company's symbol and sticker price,
\* the price p and the percentage get_percent_of_sticker(p, sticker_price);
\* msft with sticker price 118 and a quote of 352.5 gives 299.
C3_DealOfCompany ==
    (/\ call.op = "get_deal"
     /\ call.arg.t = "Company"
     /\ ~IsRaise(call.Ticker[call.arg.symbol])
     /\ call.arg.sticker_price.n # 0) =>
        /\ ret.t = "Deal"
        /\ ret.symbol = call.arg.symbol
        /\ ret.sticker_price = call.arg.sticker_price
        /\ ret.price = call.Ticker[call.arg.symbol]
        /\ ret.percent_of_sticker
             = get_percent_of_sticker(call.Ticker[call.arg.symbol],
                                      call.arg.sticker_price)
        /\ (/\ call.arg = Company("msft", IntNum(118))
            /\ call.Ticker["msft"] = FloatNum(352500)) =>
               ret.percent_of_sticker = IntNum(299)

C3_Witness ==
    /\ call.op = "get_deal"
    /\ call.arg = Company("msft", IntNum(118))
    /\ call.Ticker["msft"] = FloatNum(352500)
    /\ ret = Deal("msft", IntNum(118), FloatNum(352500), IntNum(299))

\* C8: get_price of a collection of symbols returns a mapping whose keys are
\* exactly the distinct symbols of the collection, one entry each, every key
\* mapped to what get_price returns for that symbol alone; the empty
\* collection gives the empty mapping.
C8_PriceOfSymbols ==
    (/\ call.op = "get_price"
     /\ call.arg.t = "list"
     /\ \A s \in Range(call.arg.items) : ~IsRaise(call.Ticker[s])) =>
        /\ ret.t = "dict"
        /\ Range(DictKeys(ret.items)) = Range(call.arg.items)
        /\ Len(ret.items) = Cardinality(Range(call.arg.items))
        /\ \A i \in 1..Len(ret.items) :
              ret.items[i].value = get_price(Str(ret.items[i].key), call.Ticker)
        /\ (call.arg.items = <<>> => ret.items = <<>>)

\* a symbol given twice among three has one entry
C8_Witness ==
    /\ call.op = "get_price"
    /\ call.arg.t = "list"
    /\ Len(call.arg.items) = 3
    /\ call.arg.items[1] = call.arg.items[3]
    /\ call.arg.items[1] # call.arg.items[2]
    /\ ret.t = "dict"
    /\ Len(ret.items) = 2

\* C9: a failure of the quote provider or of the sticker endpoint is neither
\* caught nor retried: get_deal, get_deals and get_stickers end with that
\* failure, the first one raised, and return nothing, not even the deals or
\* stickers computed before it.
C9_FailurePropagates ==
    /\ (/\ call.op = "get_deal"
        /\ call.arg.t = "Company"
        /\ IsRaise(call.Ticker[call.arg.symbol])) =>
           ret = QuoteFailure(call.arg.symbol)
    /\ (/\ IsListCall
        /\ \E s \in SymbolsOf(call.arg.items) : IsRaise(call.Ticker[s])) =>
           /\ IsRaise(ret)
           /\ (\A c \in Range(call.arg.items) : c.sticker_price.n # 0) =>
                 /\ ret = FirstFailure(SymbolSeq(call.arg.items), call.Ticker)
                 /\ \E s \in SymbolsOf(call.arg.items) : ret = QuoteFailure(s)
    /\ (/\ call.op = "get_stickers"
        /\ \E k \in DOMAIN call.get : IsRaise(call.get[k])) =>
           /\ ret = FirstFailure(SelectSeq(call.arg, LAMBDA k : k \in DOMAIN call.get),
                                 call.get)
           /\ \E k \in Range(call.arg) : ret = StickerFailure(k)
           /\ Len(requests) >= 1
           /\ ret = StickerFailure(requests[Len(requests)])

\* the quotes of two companies were had before the third company's failed
C9_Witness ==
    /\ call.op = "get_deals"
    /\ Len(call.arg.items) = 3
    /\ Cardinality(SymbolsOf(call.arg.items)) = 3
    /\ ~IsRaise(call.Ticker[call.arg.items[1].symbol])
    /\ ~IsRaise(call.Ticker[call.arg.items[2].symbol])
    /\ \A c \in Range(call.arg.items) : c.sticker_price.n # 0
    /\ ret = QuoteFailure(call.arg.items[3].symbol)

\* the sticker price of the last of a symbol's companies in the list
LastStickerPrice(companies, symbol) ==
    companies[CHOOSE i \in 1..Len(companies) :
                /\ companies[i].symbol = symbol
                /\ \A j \in (i + 1)..Len(companies) : companies[j].symbol # symbol
             ].sticker_price

\* C10: get_deals returns exactly one Deal for each distinct symbol of the
\* list, and the Deal of a symbol listed more than once is computed from
\* the sticker price of the symbol's last company in the list.
C10_OneDealPerSymbol ==
    (IsListCall /\ ret.t = "list") =>
        /\ Len(ret.items) = Cardinality(SymbolsOf(call.arg.items))
        /\ {d.symbol : d \in Range(ret.items)} = SymbolsOf(call.arg.items)
        /\ \A d \in Range(ret.items) :
              LET last == LastStickerPrice(call.arg.items, d.symbol)
              IN  /\ d.sticker_price = last
                  /\ d.price = call.Ticker[d.symbol]
                  /\ d.percent_of_sticker = get_percent_of_sticker(d.price, last)

\* msft is listed with 118 and then again with 11: one msft deal, made of 11
C10_Witness ==
    /\ call.op = "get_deals"
    /\ ret.t = "list"
    /\ Len(call.arg.items) = 3
    /\ call.arg.items[1] = Company("msft", IntNum(118))
    /\ call.arg.items[2].symbol = "tsm"
    /\ call.arg.items[3] = Company("msft", IntNum(11))
    /\ Len(ret.items) = 2
    /\ \E d \in Range(ret.items) : d.symbol = "msft" /\ d.sticker_price = IntNum(11)

\* C2: for every price p and non-zero sticker price r,
\* get_percent_of_sticker(p, r) is round(100 * round(p/r, 2)): the ratio
\* rounded to two decimals, then as a whole percentage rounded to the nearest
\* integer, not truncated.
C2_PercentIsRounded ==
    (call.op = "get_percent_of_sticker" /\ call.sticker_price.n # 0) =>
        LET k == IF call.price.n = 0 THEN 0
                 ELSE RoundRatio2(Abs(call.price.n), Abs(call.sticker_price.n))
        IN  ret = IntNum(PyRound(Mul100(k)))

\* what the two Deals' fields have for values: 98 and 98.0 are equal values
SameFields(a, b) ==
    /\ a.symbol = b.symbol
    /\ a.sticker_price.n = b.sticker_price.n
    /\ a.price.n = b.price.n
    /\ a.percent_of_sticker.n = b.percent_of_sticker.n

\* C6: Deal equality is structural: two Deals are == when their four fields
\* have equal values, and are not when they differ in a field.
C6_StructuralEquality ==
    call.op = "Deal.__eq__" => (ret.b <=> SameFields(call.self, call.other))

\* C7: round_sticker rounds a value above 2.0 to the nearest integer and a
\* value below 2.0 to full cents; round_sticker(22.01) is 22 and
\* round_sticker(0.512) is 0.51.
C7_RoundSticker ==
    call.op = "round_sticker" =>
        /\ call.sticker.n > 2000 =>
              /\ ret.t = "int"
              /\ ret.n % 1000 = 0
              /\ Abs(ret.n - call.sticker.n) <= 500
        /\ call.sticker.n < 2000 =>
              /\ ret.n % 10 = 0
              /\ Abs(ret.n - call.sticker.n) <= 5
        /\ call.sticker = FloatNum(22010) => ret = IntNum(22)
        /\ call.sticker = FloatNum(512) => ret = FloatNum(510)

C7_Witness ==
    /\ call.op = "round_sticker"
    /\ call.sticker = FloatNum(22010)
    /\ ret = IntNum(22)

\* the reference price get_stickers had for a key: the cached one, or else
\* the endpoint's reply
ReferencePrice(key) ==
    IF DictHas(call.before, key) THEN DictGet(call.before, key) ELSE call.get[key]

\* C5: get_stickers returns an entry for a key exactly when the reference
\* price fetched for the key is neither missing nor negative, and the entry's
\* value is round_sticker of that reference price.
C5_ValidStickersOnly ==
    (call.op = "get_stickers" /\ ret.t = "dict") =>
        /\ Range(DictKeys(ret.items)) \subseteq Range(call.arg)
        /\ \A key \in Range(call.arg) :
              LET price == ReferencePrice(key)
              IN  /\ DictGet(fetched, key) = price
                  /\ DictHas(ret.items, key) <=> (price # None /\ price.n >= 0)
                  /\ DictHas(ret.items, key) =>
                        DictGet(ret.items, key) = round_sticker(price)

\* of two keys, the one with a negative price remembered from an earlier call
\* is left out and the one just fetched is kept
C5_Witness ==
    /\ call.op = "get_stickers"
    /\ ret.t = "dict"
    /\ Len(call.arg) = 2
    /\ Len(requests) = 1
    /\ \E key \in Range(call.arg) :
          /\ DictHas(call.before, key)
          /\ DictGet(call.before, key).n < 0
          /\ ~DictHas(ret.items, key)
    /\ \E key \in Range(call.arg) :
          /\ ~DictHas(call.before, key)
          /\ call.get[key] = FloatNum(22010)
          /\ DictHas(ret.items, key)
          /\ DictGet(ret.items, key) = IntNum(22)

====
